---- MODULE Spec2Model ----
(***************************************************************************)
(* Model of the PlexBuy AI backend (src/unnamed/part_000, lines 80-725):   *)
(* the ServiceManager with its two capability-initialization routines, the *)
(* single-flight gate ensureServicesReady, and the HTTP handlers that wait *)
(* on the gate (GET /health, POST /api/advise).                            *)
(*                                                                         *)
(* JavaScript runs each piece of code between two awaits to completion, so *)
(* every action below is one such piece: a call up to its first await, or  *)
(* the continuation that an external reply (Gemini, MongoDB) or a resolved *)
(* promise resumes.                                                        *)
(***************************************************************************)
EXTENDS Integers, Sequences, FiniteSets, TLC

\* ------------------------------------------------------------------ bounds
\* Number of concurrent GET /health requests.
MaxHealth == 1

\* ------------------------------------------------------- program constants
\* apiKey.length < 30 is rejected (line 180).
MinKeyLen == 30
\* .limit(6) of the product search (line 272).
FindLimit == 6
\* products.slice(0, 5) of the response (line 595).
ResponseLimit == 5
\* products.slice(0, 3) of addAffiliateLinks (line 474).
LinkLimit == 3
\* .slice(0, 2) of the degraded response (line 622).
DegradedLimit == 2

\* -------------------------------------------------------------- callers
\* The module-level call ensureServicesReady() made while the module loads.
Boot == 0
\* The POST /api/advise request.
AdviseReq == 1
\* The GET /health requests.
HealthReqs == 2..(1 + MaxHealth)
Callers == {Boot, AdviseReq} \cup HealthReqs
\* One more request, to any of the status routes: GET /health, /api/test,
\* /api/test/ai or /api/test/db.
RouteReq == 2 + MaxHealth
Requests == Callers \cup {RouteReq}
\* find().limit(2) of GET /api/test/db (line 693).
TestLimit == 2

\* The route of each caller.
StatusRoutes == {"health", "test", "test/ai", "test/db"}
RoutesOf(c) ==
    IF c = Boot THEN {"boot"}
    ELSE IF c = AdviseReq THEN {"advise"}
    ELSE IF c \in HealthReqs THEN {"health"}
    ELSE StatusRoutes

\* -------------------------------------------------------------- strings
\* A string is a sequence of one-character strings.
UpperToLower ==
    "A" :> "a" @@ "B" :> "b" @@ "E" :> "e" @@ "G" :> "g" @@ "H" :> "h" @@
    "I" :> "i" @@ "L" :> "l" @@ "M" :> "m" @@ "N" :> "n" @@ "O" :> "o" @@
    "P" :> "p" @@ "R" :> "r" @@ "S" :> "s" @@ "T" :> "t" @@ "U" :> "u"

toLowerCase(s) ==
    [i \in 1..Len(s) |->
        IF s[i] \in DOMAIN UpperToLower THEN UpperToLower[s[i]] ELSE s[i]]

includes(s, q) ==
    \E i \in 0..(Len(s) - Len(q)) : SubSeq(s, i + 1, i + Len(q)) = q

RECURSIVE trimStart(_)
trimStart(s) ==
    IF s # <<>> /\ Head(s) = " " THEN trimStart(Tail(s)) ELSE s

RECURSIVE trimEnd(_)
trimEnd(s) ==
    IF s # <<>> /\ s[Len(s)] = " " THEN trimEnd(SubSeq(s, 1, Len(s) - 1)) ELSE s

trim(s) == trimEnd(trimStart(s))

Min(a, b) == IF a < b THEN a ELSE b

slice(s, n) == SubSeq(s, 1, Min(n, Len(s)))

\* ---------------------------------------------------------- configuration
\* CONFIG.GEMINI_API_KEY, by what initializeGemini looks at: the prefix and
\* the length of the trimmed key; len = 0 is the empty string.
GeminiKeys ==
    {[prefix |-> "", len |-> 0]} \cup
    [prefix : {"AIza", "sk-"}, len : {MinKeyLen - 1, MinKeyLen}]

\* CONFIG.MONGODB_URI, by what initializeMongoDB looks at.  "unparsable" is
\* a non-empty string without placeholder that new MongoClient() rejects.
MongoUris == {"", "has username:password", "has your_", "unparsable", "valid"}

VARIABLES
    GEMINI_API_KEY,         \* CONFIG.GEMINI_API_KEY
    MONGODB_URI,            \* CONFIG.MONGODB_URI
    genAI,                  \* this.genAI is set
    isAIReady,              \* this.isAIReady
    dbClient,               \* this.dbClient is set
    productsCollection,     \* this.productsCollection is set
    isDBReady,              \* this.isDBReady
    initializationPromise,  \* this.initializationPromise
    initializationComplete, \* module-level flag
    initPromise,            \* module-level promise
    aiPc,                   \* position of initializeGemini
    aiSettled,              \* how the promise of initializeGemini settled
    dbPc,                   \* position of initializeMongoDB
    dbSettled,              \* how the promise of initializeMongoDB settled
    aiStarts,               \* number of times initializeGemini was started
    dbStarts,               \* number of times initializeMongoDB was started
    aiFailure,              \* the step at which initializeGemini failed
    dbFailure,              \* the step at which initializeMongoDB failed
    pc,                     \* position of each caller of ensureServicesReady
    awaited,                \* what each caller's ensureServicesReady returned
    received,               \* the value each caller's await produced
    calledIn,               \* the gate state in which each caller called
    query,                  \* req.body.query of the advise request
    language,               \* req.body.language of the advise request
    products,               \* products of the advise request
    aiResponse,             \* aiResponse of the advise request
    raised,                 \* where errors were raised during the request
    dbQueried,              \* the request called productsCollection.find
    aiInvoked,              \* the request called model.generateContent
    response,               \* the response sent to each request
    route,                  \* the route each request came in on
    dbTested,               \* GET /api/test/db called the store
    aiTested                \* GET /api/test/ai called the generator

gateVars == <<genAI, isAIReady, dbClient, productsCollection, isDBReady,
              initializationPromise, initializationComplete, initPromise,
              aiPc, aiSettled, dbPc, dbSettled, aiStarts, dbStarts,
              aiFailure, dbFailure>>
configVars == <<GEMINI_API_KEY, MONGODB_URI>>
callerVars == <<pc, awaited, received, calledIn>>
adviseVars == <<query, language, products, aiResponse, raised, dbQueried,
                aiInvoked>>
routeVars == <<route, dbTested, aiTested>>
vars == <<configVars, gateVars, callerVars, adviseVars, response, routeVars>>

\* ------------------------------------------------------------- promises
\* A promise: null (the variable holds no promise), pending, fulfilled with
\* a value, or rejected.
NullPromise == [state |-> "null", aiReady |-> FALSE, dbReady |-> FALSE]
PendingPromise == [state |-> "pending", aiReady |-> FALSE, dbReady |-> FALSE]
Fulfilled(ai, db) == [state |-> "fulfilled", aiReady |-> ai, dbReady |-> db]
Rejected == [state |-> "rejected", aiReady |-> FALSE, dbReady |-> FALSE]

\* A value an await produces: nothing yet, the boolean true, the result
\* object {aiReady, dbReady}, or a thrown error.
NoValue == [tag |-> "none", aiReady |-> FALSE, dbReady |-> FALSE]
TrueValue == [tag |-> "true", aiReady |-> FALSE, dbReady |-> FALSE]
ResultValue(p) == [tag |-> "result", aiReady |-> p.aiReady, dbReady |-> p.dbReady]
ErrorValue == [tag |-> "error", aiReady |-> FALSE, dbReady |-> FALSE]

\* The state of the gate as the spec names it.
GateState ==
    IF initializationComplete THEN "Completed"
    ELSE IF initPromise.state = "null" THEN "NotAttempted"
    ELSE "Attempting"

\* ------------------------------------------------------------ responses
NoResponse ==
    [status |-> 0, success |-> FALSE, advice |-> <<>>, products |-> <<>>,
     ai |-> FALSE, database |-> FALSE, error |-> FALSE, reports |-> {}]


\* How an async routine's promise settled.
Unsettled == [status |-> "pending", value |-> FALSE]
Returned(v) == [status |-> "fulfilled", value |-> v]

\* ------------------------------------------------ credential validation
\* !CONFIG.GEMINI_API_KEY (line 172).
KeyMissing(key) == key.len = 0

\* A variant of KeyFormatValid that rejects a key only when both the prefix
\* and the length are wrong.
KeyFormatLax(key) == key.prefix = "AIza" \/ ~(key.len < MinKeyLen)

\* apiKey.startsWith('AIza') and apiKey.length >= 30 (line 180).
KeyFormatValid(key) == key.prefix = "AIza" /\ ~(key.len < MinKeyLen)

\* !CONFIG.MONGODB_URI (line 217).
UriMissing(uri) == uri = ""

\* includes('username:password') || includes('your_') (lines 223-224).
UriHasPlaceholder(uri) == uri \in {"has username:password", "has your_"}

\* new MongoClient(uri) throws on a connection string it cannot parse.
UriParses(uri) == uri = "valid"

\* ------------------------------------------- initializeGemini (168-211)
\* The call up to its first await: validate the key, create the client and
\* send the test request.
InitializeGeminiStart ==
    /\ aiStarts' = aiStarts + 1
    /\ IF KeyMissing(GEMINI_API_KEY)
       THEN /\ aiPc' = "done"
            /\ aiSettled' = Returned(FALSE)
            /\ aiFailure' = "missing"
            /\ UNCHANGED <<genAI, isAIReady>>
       ELSE IF ~KeyFormatValid(GEMINI_API_KEY)
       THEN /\ aiPc' = "done"
            /\ aiSettled' = Returned(FALSE)
            /\ aiFailure' = "malformed"
            /\ UNCHANGED <<genAI, isAIReady>>
       ELSE /\ genAI' = TRUE
            /\ aiPc' = "testing"
            /\ aiSettled' = Unsettled
            /\ aiFailure' = "none"
            /\ UNCHANGED isAIReady

\* A variant of GeminiTestDone whose flag is set before the reply is known
\* and is not reset when the test request fails.
GeminiTestDoneFlagKept ==
    /\ aiPc = "testing"
    /\ \E outcome \in {"ok", "connect", "probe"} :
        IF outcome = "ok"
        THEN /\ aiSettled' = Returned(TRUE)
             /\ UNCHANGED aiFailure
        ELSE /\ aiSettled' = Returned(FALSE)
             /\ aiFailure' = outcome
    /\ isAIReady' = TRUE
    /\ aiPc' = "done"
    /\ UNCHANGED <<configVars, routeVars, genAI, dbClient, productsCollection, isDBReady,
                   initializationPromise, initializationComplete, initPromise,
                   dbPc, dbSettled, aiStarts, dbStarts, dbFailure,
                   callerVars, adviseVars, response>>

\* The reply to model.generateContent("Hello") arrives (lines 198-210).
GeminiTestDone ==
    /\ aiPc = "testing"
    /\ \E outcome \in {"ok", "connect", "probe"} :
        IF outcome = "ok"
        THEN /\ isAIReady' = TRUE
             /\ aiSettled' = Returned(TRUE)
             /\ UNCHANGED aiFailure
        ELSE /\ isAIReady' = FALSE
             /\ aiSettled' = Returned(FALSE)
             /\ aiFailure' = outcome
    /\ aiPc' = "done"
    /\ UNCHANGED <<configVars, routeVars, genAI, dbClient, productsCollection, isDBReady,
                   initializationPromise, initializationComplete, initPromise,
                   dbPc, dbSettled, aiStarts, dbStarts, dbFailure,
                   callerVars, adviseVars, response>>

\* ------------------------------------------ initializeMongoDB (213-254)
\* The call up to its first await: validate the URI, create the client and
\* start connecting.
InitializeMongoDBStart ==
    /\ dbStarts' = dbStarts + 1
    /\ IF UriMissing(MONGODB_URI)
       THEN /\ dbPc' = "done"
            /\ dbSettled' = Returned(FALSE)
            /\ dbFailure' = "missing"
            /\ UNCHANGED <<dbClient, productsCollection, isDBReady>>
       ELSE IF UriHasPlaceholder(MONGODB_URI)
       THEN /\ dbPc' = "done"
            /\ dbSettled' = Returned(FALSE)
            /\ dbFailure' = "malformed"
            /\ UNCHANGED <<dbClient, productsCollection, isDBReady>>
       ELSE IF ~UriParses(MONGODB_URI)
       THEN \* the constructor throws; the catch block runs
            /\ dbPc' = "done"
            /\ isDBReady' = FALSE
            /\ dbSettled' = Returned(FALSE)
            /\ dbFailure' = "malformed"
            /\ UNCHANGED <<dbClient, productsCollection>>
       ELSE /\ dbClient' = TRUE
            /\ dbPc' = "connecting"
            /\ dbSettled' = Unsettled
            /\ dbFailure' = "none"
            /\ UNCHANGED <<productsCollection, isDBReady>>

\* The reply to dbClient.connect() arrives (lines 238-240, 249-253).
MongoConnectDone ==
    /\ dbPc = "connecting"
    /\ \E ok \in BOOLEAN :
        IF ok
        THEN /\ productsCollection' = TRUE
             /\ dbPc' = "counting"
             /\ UNCHANGED <<isDBReady, dbSettled, dbFailure>>
        ELSE /\ isDBReady' = FALSE
             /\ dbSettled' = Returned(FALSE)
             /\ dbFailure' = "connect"
             /\ dbPc' = "done"
             /\ UNCHANGED productsCollection
    /\ UNCHANGED <<configVars, routeVars, genAI, isAIReady, dbClient,
                   initializationPromise, initializationComplete, initPromise,
                   aiPc, aiSettled, aiStarts, dbStarts, aiFailure,
                   callerVars, adviseVars, response>>

\* A variant of MongoCountDone that swallows a failing count and reports
\* the store as connected.
MongoCountDoneSwallowed ==
    /\ dbPc = "counting"
    /\ \E ok \in BOOLEAN :
        /\ isDBReady' = TRUE
        /\ dbSettled' = Returned(TRUE)
        /\ dbFailure' = IF ok THEN dbFailure ELSE "probe"
    /\ dbPc' = "done"
    /\ UNCHANGED <<configVars, routeVars, genAI, isAIReady, dbClient, productsCollection,
                   initializationPromise, initializationComplete, initPromise,
                   aiPc, aiSettled, aiStarts, dbStarts, aiFailure,
                   callerVars, adviseVars, response>>

\* The reply to estimatedDocumentCount() arrives (lines 243-253).
MongoCountDone ==
    /\ dbPc = "counting"
    /\ \E ok \in BOOLEAN :
        IF ok
        THEN /\ isDBReady' = TRUE
             /\ dbSettled' = Returned(TRUE)
             /\ UNCHANGED dbFailure
        ELSE /\ isDBReady' = FALSE
             /\ dbSettled' = Returned(FALSE)
             /\ dbFailure' = "probe"
    /\ dbPc' = "done"
    /\ UNCHANGED <<configVars, routeVars, genAI, isAIReady, dbClient, productsCollection,
                   initializationPromise, initializationComplete, initPromise,
                   aiPc, aiSettled, aiStarts, dbStarts, aiFailure,
                   callerVars, adviseVars, response>>

\* ------------------------------------ ServiceManager.initialize (140-166)
\* The value of one entry of Promise.allSettled:
\* status === 'fulfilled' && value (lines 160-161).
SettledReady(settled) == settled.status = "fulfilled" /\ settled.value

\* A variant of AllSettled that is content with the first routine to
\* finish, as Promise.race would be.
AnySettled == aiPc = "done" \/ dbPc = "done"

\* A variant of AllSettled that waits until both capabilities are ready.
AllReady == aiPc = "done" /\ dbPc = "done" /\ aiSettled.value /\ dbSettled.value

\* Promise.allSettled has both results when both routines have finished.
AllSettled == aiPc = "done" /\ dbPc = "done"

\* A variant of InitializeResult that reports each capability ready only
\* when both are.
InitializeResultJoint ==
    Fulfilled(SettledReady(aiSettled) /\ SettledReady(dbSettled),
              SettledReady(aiSettled) /\ SettledReady(dbSettled))

\* The result object of the attempt (lines 159-162).
InitializeResult == Fulfilled(SettledReady(aiSettled), SettledReady(dbSettled))

\* initialize(): return the stored promise if there is one, else store a
\* new one and start both routines (lines 142-153).
Initialize ==
    IF initializationPromise.state # "null"
    THEN UNCHANGED <<genAI, isAIReady, dbClient, productsCollection, isDBReady,
                     initializationPromise, aiPc, aiSettled, dbPc, dbSettled,
                     aiStarts, dbStarts, aiFailure, dbFailure>>
    ELSE /\ initializationPromise' = PendingPromise
         /\ InitializeGeminiStart
         /\ InitializeMongoDBStart

\* Promise.allSettled resolves and the async body returns (lines 150-162).
InitializeReturn ==
    /\ initializationPromise.state = "pending"
    /\ AllSettled
    /\ initializationPromise' = InitializeResult
    /\ UNCHANGED <<configVars, routeVars, genAI, isAIReady, dbClient, productsCollection,
                   isDBReady, initializationComplete, initPromise,
                   aiPc, aiSettled, dbPc, dbSettled, aiStarts, dbStarts,
                   aiFailure, dbFailure, callerVars, adviseVars, response>>

\* ------------------------------------------ ensureServicesReady (500-511)
\* The value the .then callback returns (line 506).
ThenResult == initializationPromise

\* The .then callback of line 504 runs once initialize() has resolved; a
\* rejection would skip the callback and reject initPromise.
InitPromiseThen ==
    /\ initPromise.state = "pending"
    /\ initializationPromise.state \in {"fulfilled", "rejected"}
    /\ IF initializationPromise.state = "fulfilled"
       THEN /\ initializationComplete' = TRUE
            /\ initPromise' = ThenResult
       ELSE /\ initPromise' = Rejected
            /\ UNCHANGED initializationComplete
    /\ UNCHANGED <<configVars, routeVars, genAI, isAIReady, dbClient, productsCollection,
                   isDBReady, initializationPromise,
                   aiPc, aiSettled, dbPc, dbSettled, aiStarts, dbStarts,
                   aiFailure, dbFailure, callerVars, adviseVars, response>>

\* A variant of ensureServicesReady without single-flight: every call made
\* before completion starts the routines again.
EnsureServicesReadyUnguarded(c) ==
    /\ pc[c] = "idle"
    /\ c = Boot \/ pc[Boot] # "idle"
    /\ calledIn' = [calledIn EXCEPT ![c] = GateState]
    /\ pc' = [pc EXCEPT ![c] = "await"]
    /\ IF initializationComplete
       THEN /\ awaited' = [awaited EXCEPT ![c] = "true"]
            /\ UNCHANGED gateVars
       ELSE /\ awaited' = [awaited EXCEPT ![c] = "initPromise"]
            /\ initPromise' = PendingPromise
            /\ initializationPromise' = PendingPromise
            /\ InitializeGeminiStart
            /\ InitializeMongoDBStart
            /\ UNCHANGED initializationComplete
    /\ \E rt \in RoutesOf(c) : route' = [route EXCEPT ![c] = rt]
    /\ UNCHANGED <<configVars, dbTested, aiTested, received, adviseVars, response>>

\* A caller calls ensureServicesReady().  Requests are served only after the
\* module has loaded, that is after the call of line 514.
EnsureServicesReady(c) ==
    /\ pc[c] = "idle"
    /\ c = Boot \/ pc[Boot] # "idle"
    /\ calledIn' = [calledIn EXCEPT ![c] = GateState]
    /\ pc' = [pc EXCEPT ![c] = "await"]
    /\ IF initializationComplete
       THEN /\ awaited' = [awaited EXCEPT ![c] = "true"]
            /\ UNCHANGED gateVars
       ELSE /\ awaited' = [awaited EXCEPT ![c] = "initPromise"]
            /\ IF initPromise.state = "null"
               THEN /\ initPromise' = PendingPromise
                    /\ Initialize
               ELSE UNCHANGED <<genAI, isAIReady, dbClient, productsCollection,
                                isDBReady, initializationPromise, initPromise,
                                aiPc, aiSettled, dbPc, dbSettled,
                                aiStarts, dbStarts, aiFailure, dbFailure>>
            /\ UNCHANGED initializationComplete
    /\ \E rt \in RoutesOf(c) : route' = [route EXCEPT ![c] = rt]
    /\ UNCHANGED <<configVars, dbTested, aiTested, received, adviseVars, response>>

\* The value a caller's await produces (lines 501, 510).
AwaitedValue(c) ==
    IF awaited[c] = "true" THEN TrueValue
    ELSE IF initPromise.state = "rejected" THEN ErrorValue
    ELSE ResultValue(initPromise)

\* The promise a caller awaits has settled and the caller resumes.  The
\* module-level call of line 514 has nothing left to do then.
\* A variant of the await in which the caller goes on at once, whether the
\* attempt has completed or not.
ResolvedEarly(c) ==
    /\ pc[c] = "await"
    /\ received' = [received EXCEPT ![c] = TrueValue]
    /\ pc' = [pc EXCEPT ![c] = IF c = Boot THEN "done" ELSE "ready"]
    /\ UNCHANGED <<configVars, routeVars, gateVars, awaited, calledIn, adviseVars, response>>

Resolved(c) ==
    /\ pc[c] = "await"
    /\ awaited[c] = "true" \/ initPromise.state \in {"fulfilled", "rejected"}
    /\ received' = [received EXCEPT ![c] = AwaitedValue(c)]
    /\ pc' = [pc EXCEPT ![c] = IF c = Boot THEN "done" ELSE "ready"]
    /\ UNCHANGED <<configVars, routeVars, gateVars, awaited, calledIn, adviseVars, response>>

\* ------------------------------------------------- GET /health (537-554)
HealthRespond(h) ==
    /\ pc[h] = "ready"
    /\ route[h] = "health"
    /\ IF received[h].tag = "error"
       THEN \* no try block: the rejection escapes the handler
            /\ pc' = [pc EXCEPT ![h] = "unhandled"]
            /\ UNCHANGED response
       ELSE /\ pc' = [pc EXCEPT ![h] = "done"]
            /\ response' = [response EXCEPT ![h] =
                   [NoResponse EXCEPT !.status = 200, !.success = TRUE,
                                      !.ai = isAIReady, !.database = isDBReady,
                                      !.reports = {"ai", "database"}]]
    /\ UNCHANGED <<configVars, routeVars, gateVars, awaited, received, calledIn, adviseVars>>


\* --------------------------------------------- sample products (342-373)
Name1 ==
    <<"i", "P", "h", "o", "n", "e", " ", "1", "5", " ", "P", "r", "o", " ",
      "(", "2", "5", "6", "G", "B", ")">>
Name2 ==
    <<"S", "a", "m", "s", "u", "n", "g", " ", "G", "a", "l", "a", "x", "y",
      " ", "S", "2", "4", " ", "U", "l", "t", "r", "a">>
Smartphones ==
    <<"S", "m", "a", "r", "t", "p", "h", "o", "n", "e", "s">>
Apple ==
    <<"A", "p", "p", "l", "e">>
Samsung ==
    <<"S", "a", "m", "s", "u", "n", "g">>

sampleProducts ==
    << [id |-> "1", name |-> Name1, category |-> Smartphones, brand |-> Apple,
        price |-> 134999, ratingType |-> "number"],
       [id |-> "2", name |-> Name2, category |-> Smartphones, brand |-> Samsung,
        price |-> 129999, ratingType |-> "number"] >>

\* The records the store can return: record i of a reply, whose rating is a
\* number unless i = badAt (a document whose rating was stored as a string).
DbIds == <<"db1", "db2", "db3", "db4", "db5", "db6">>
StoreRecord(i, badAt) ==
    [id |-> DbIds[i], name |-> <<"d", "b">>, category |-> <<"c">>,
     brand |-> <<"b">>, price |-> 100 * i,
     ratingType |-> IF i = badAt THEN "string" ELSE "number"]

\* formatProduct (289-310), the fields the handlers use afterwards:
\* rating is product.rating || 4.0, so a string rating stays a string.
formatProduct(p) ==
    [id |-> p.id, name |-> p.name, price |-> p.price, brand |-> p.brand,
     ratingType |-> p.ratingType]

MapFormat(ps) == [i \in 1..Len(ps) |-> formatProduct(ps[i])]

\* The filter of lines 378-382.
SampleMatches(p, queryLower) ==
    \/ includes(toLowerCase(p.name), queryLower)
    \/ includes(toLowerCase(p.category), queryLower)
    \/ includes(toLowerCase(p.brand), queryLower)

\* A variant of getSampleProducts that does not filter by the query.
getSampleProductsUnfiltered(q) == MapFormat(sampleProducts)

\* getSampleProducts (339-387); q is a string.
getSampleProducts(q) ==
    IF q # <<>> /\ trim(q) # <<>>
    THEN LET queryLower == toLowerCase(q)
             Test(p) == SampleMatches(p, queryLower)
         IN  MapFormat(SelectSeq(sampleProducts, Test))
    ELSE MapFormat(sampleProducts)

\* ------------------------------------------------------------ advice text
\* A text is a sequence of segments; "signature" is the closing line that
\* starts with the gem sign, which addAffiliateLinks looks for.
\* getSmartResponse (453-467).
getSmartResponse(ps, lang) ==
    IF lang = "hinglish"
    THEN IF Len(ps) > 0 THEN <<"smart hinglish products", "signature">>
         ELSE <<"smart hinglish tips", "signature">>
    ELSE IF Len(ps) > 0 THEN <<"smart english products", "signature">>
         ELSE <<"smart english tips", "signature">>

SmartTexts ==
    {<<"smart hinglish products", "signature">>,
     <<"smart hinglish tips", "signature">>,
     <<"smart english products", "signature">>,
     <<"smart english tips", "signature">>}

\* The texts response.text() of the generator can return (line 408): the
\* empty string, a text without the closing line, a text with it.
GeneratedTexts == {<<>>, <<"generated">>, <<"generated", "signature">>}

\* response.lastIndexOf of the gem sign (line 484), 0 when absent.
lastIndexOf(text, seg) ==
    LET hits == {i \in 1..Len(text) : text[i] = seg}
    IN  IF hits = {} THEN 0 ELSE CHOOSE i \in hits : \A j \in hits : j <= i

\* product.rating.toFixed(1) of line 477 throws for a rating that is no
\* number; only the first three products are looked at (line 474).
AffiliateThrows(ps) ==
    \E i \in 1..Min(LinkLimit, Len(ps)) : ps[i].ratingType # "number"

\* addAffiliateLinks (469-490) when it does not throw.
addAffiliateLinks(text, ps) ==
    IF Len(ps) = 0 THEN text
    ELSE LET signatureIndex == lastIndexOf(text, "signature")
         IN  IF signatureIndex # 0
             THEN SubSeq(text, 1, signatureIndex - 1) \o <<"affiliate links">>
                  \o SubSeq(text, signatureIndex, Len(text))
             ELSE text \o <<"affiliate links">>

\* The advice of the degraded response (line 621).
StaticAdvice == <<"temporarily unavailable">>

\* The degraded response of the catch block (618-627).
DegradedResponse ==
    [NoResponse EXCEPT !.status = 500, !.success = FALSE,
                       !.advice = StaticAdvice,
                       !.products = slice(getSampleProducts(<<>>), DegradedLimit)]

\* The 400 response of lines 567-570.
QueryRequiredResponse == [NoResponse EXCEPT !.status = 400, !.success = FALSE]

\* -------------------------------------------- POST /api/advise (557-629)
\* req.body.query: absent, a string, or a value of another type.
QLaptop ==
    <<"l", "a", "p", "t", "o", "p", " ", "u", "n", "d", "e", "r", " ", "5",
      "0", "0", "0", "0">>
QIphone ==
    <<" ", "i", "P", "h", "o", "n", "e", " ">>
QSmartphones ==
    <<"S", "M", "A", "R", "T", "P", "H", "O", "N", "E", "S">>

NoQuery == [type |-> "undefined", chars |-> <<>>]
Queries ==
    {NoQuery, [type |-> "number", chars |-> <<>>],
     [type |-> "string", chars |-> <<" ", " ">>],
     [type |-> "string", chars |-> QLaptop],
     [type |-> "string", chars |-> QIphone],
     [type |-> "string", chars |-> QSmartphones]}

Languages == {"hinglish", "english"}

\* !query || query.trim() === '' (line 566); trim exists on strings only.
QueryFalsy(q) == q.type = "undefined" \/ (q.type = "string" /\ q.chars = <<>>)
TrimThrows(q) == ~QueryFalsy(q) /\ q.type # "string"
QueryBlank(q) == q.type = "string" /\ trim(q.chars) = <<>>

\* query.trim() of line 573.
cleanQuery == trim(query.chars)

\* The handler resumes after await ensureServicesReady() and runs up to the
\* call of searchProducts (lines 562-577).
AdviseParse(r) ==
    /\ r = AdviseReq
    /\ pc[r] = "ready"
    /\ IF received[r].tag = "error"
       THEN /\ response' = [response EXCEPT ![r] = DegradedResponse]
            /\ pc' = [pc EXCEPT ![r] = "done"]
            /\ UNCHANGED <<query, language, raised>>
       ELSE \E q \in Queries, lang \in Languages :
            /\ query' = q
            /\ language' = lang
            /\ IF QueryFalsy(q)
               THEN /\ response' = [response EXCEPT ![r] = QueryRequiredResponse]
                    /\ pc' = [pc EXCEPT ![r] = "done"]
                    /\ UNCHANGED raised
               ELSE IF TrimThrows(q)
               THEN /\ raised' = raised \cup {"parse"}
                    /\ response' = [response EXCEPT ![r] = DegradedResponse]
                    /\ pc' = [pc EXCEPT ![r] = "done"]
               ELSE IF QueryBlank(q)
               THEN /\ response' = [response EXCEPT ![r] = QueryRequiredResponse]
                    /\ pc' = [pc EXCEPT ![r] = "done"]
                    /\ UNCHANGED raised
               ELSE /\ pc' = [pc EXCEPT ![r] = "search"]
                    /\ UNCHANGED <<raised, response>>
    /\ UNCHANGED <<configVars, routeVars, gateVars, awaited, received, calledIn,
                   products, aiResponse, dbQueried, aiInvoked>>

\* A variant of searchProducts that marks the store as not ready when a
\* lookup fails.
SearchProductsMarksDown(r) ==
    /\ r = AdviseReq
    /\ pc[r] = "search"
    /\ IF isDBReady /\ productsCollection
       THEN /\ dbQueried' = TRUE
            /\ \/ \E n \in 0..FindLimit : \E badAt \in 0..n :
                    /\ products' = MapFormat([i \in 1..n |-> StoreRecord(i, badAt)])
                    /\ UNCHANGED <<raised, isDBReady>>
               \/ /\ raised' = raised \cup {"search"}
                  /\ isDBReady' = FALSE
                  /\ products' = getSampleProducts(cleanQuery)
       ELSE /\ products' = getSampleProducts(cleanQuery)
            /\ UNCHANGED <<dbQueried, raised, isDBReady>>
    /\ pc' = [pc EXCEPT ![r] = "generate"]
    /\ UNCHANGED <<configVars, routeVars, genAI, isAIReady, dbClient, productsCollection,
                   initializationPromise, initializationComplete, initPromise,
                   aiPc, aiSettled, dbPc, dbSettled, aiStarts, dbStarts,
                   aiFailure, dbFailure, awaited, received, calledIn,
                   query, language, aiResponse, aiInvoked, response>>

\* searchProducts (256-287): the store when it is ready, else the sample;
\* the store replies with up to FindLimit records or fails.
SearchProducts(r) ==
    /\ r = AdviseReq
    /\ pc[r] = "search"
    /\ IF isDBReady /\ productsCollection
       THEN /\ dbQueried' = TRUE
            /\ \/ \E n \in 0..FindLimit : \E badAt \in 0..n :
                    /\ products' = MapFormat([i \in 1..n |-> StoreRecord(i, badAt)])
                    /\ UNCHANGED raised
               \/ /\ raised' = raised \cup {"search"}
                  /\ products' = getSampleProducts(cleanQuery)
       ELSE /\ products' = getSampleProducts(cleanQuery)
            /\ UNCHANGED <<dbQueried, raised>>
    /\ pc' = [pc EXCEPT ![r] = "generate"]
    /\ UNCHANGED <<configVars, routeVars, gateVars, awaited, received, calledIn,
                   query, language, aiResponse, aiInvoked, response>>

\* A variant of generateAIResponse whose catch block does not fall back: the
\* generator's error reaches the handler, which sends the degraded response.
GenerateAIResponseRethrows(r) ==
    /\ r = AdviseReq
    /\ pc[r] = "generate"
    /\ IF isAIReady /\ genAI
       THEN /\ aiInvoked' = TRUE
            /\ \/ \E text \in GeneratedTexts :
                    /\ aiResponse' = text
                    /\ pc' = [pc EXCEPT ![r] = "respond"]
                    /\ UNCHANGED <<raised, response>>
               \/ /\ raised' = raised \cup {"generate"}
                  /\ response' = [response EXCEPT ![r] = DegradedResponse]
                  /\ pc' = [pc EXCEPT ![r] = "done"]
                  /\ UNCHANGED aiResponse
       ELSE /\ aiResponse' = getSmartResponse(products, language)
            /\ pc' = [pc EXCEPT ![r] = "respond"]
            /\ UNCHANGED <<aiInvoked, raised, response>>
    /\ UNCHANGED <<configVars, routeVars, gateVars, awaited, received, calledIn,
                   query, language, products, dbQueried>>

\* generateAIResponse (389-422): the generator when it is ready, else the
\* templated text; the generator replies with a text or fails.
GenerateAIResponse(r) ==
    /\ r = AdviseReq
    /\ pc[r] = "generate"
    /\ IF isAIReady /\ genAI
       THEN /\ aiInvoked' = TRUE
            /\ \/ \E text \in GeneratedTexts :
                    /\ aiResponse' = text
                    /\ UNCHANGED raised
               \/ /\ raised' = raised \cup {"generate"}
                  /\ aiResponse' = getSmartResponse(products, language)
       ELSE /\ aiResponse' = getSmartResponse(products, language)
            /\ UNCHANGED <<aiInvoked, raised>>
    /\ pc' = [pc EXCEPT ![r] = "respond"]
    /\ UNCHANGED <<configVars, routeVars, gateVars, awaited, received, calledIn,
                   query, language, products, dbQueried, response>>

\* The products of the response (line 595).
ResponseProducts(ps) == slice(ps, ResponseLimit)

\* The advice of the response (lines 583-586).
FinalResponse(text, ps) ==
    IF Len(ps) > 0 THEN addAffiliateLinks(text, ps) ELSE text

\* A variant of the last part of the handler in which the merge runs
\* outside the try block, so that its error leaves the handler.
AdviseRespondNoCatch(r) ==
    /\ r = AdviseReq
    /\ pc[r] = "respond"
    /\ IF Len(products) > 0 /\ AffiliateThrows(products)
       THEN /\ raised' = raised \cup {"merge"}
            /\ pc' = [pc EXCEPT ![r] = "unhandled"]
            /\ UNCHANGED response
       ELSE /\ response' = [response EXCEPT ![r] =
                   [NoResponse EXCEPT !.status = 200, !.success = TRUE,
                        !.advice = FinalResponse(aiResponse, products),
                        !.products = ResponseProducts(products),
                        !.ai = isAIReady, !.database = isDBReady,
                        !.reports = {"ai", "database"}]]
            /\ pc' = [pc EXCEPT ![r] = "done"]
            /\ UNCHANGED raised
    /\ UNCHANGED <<configVars, routeVars, gateVars, awaited, received, calledIn,
                   query, language, products, aiResponse, dbQueried, aiInvoked>>

\* Lines 583-627: merge the links and send the response; an error thrown by
\* the merge is caught by the handler's catch block.
AdviseRespond(r) ==
    /\ r = AdviseReq
    /\ pc[r] = "respond"
    /\ IF Len(products) > 0 /\ AffiliateThrows(products)
       THEN /\ raised' = raised \cup {"merge"}
            /\ response' = [response EXCEPT ![r] = DegradedResponse]
       ELSE /\ response' = [response EXCEPT ![r] =
                   [NoResponse EXCEPT !.status = 200, !.success = TRUE,
                        !.advice = FinalResponse(aiResponse, products),
                        !.products = ResponseProducts(products),
                        !.ai = isAIReady, !.database = isDBReady,
                        !.reports = {"ai", "database"}]]
            /\ UNCHANGED raised
    /\ pc' = [pc EXCEPT ![r] = "done"]
    /\ UNCHANGED <<configVars, routeVars, gateVars, awaited, received, calledIn,
                   query, language, products, aiResponse, dbQueried, aiInvoked>>

\* ------------------------------------------------------- test routes
\* After the gate has completed nothing writes the flags or the clients, so
\* the store and generator calls of a test handler, and what it sends, are
\* one step here: each reply is an input of the step.

\* GET /api/test (632-645): report both flags.
TestRespond(r) ==
    /\ pc[r] = "ready"
    /\ route[r] = "test"
    /\ IF received[r].tag = "error"
       THEN /\ pc' = [pc EXCEPT ![r] = "unhandled"]
            /\ UNCHANGED response
       ELSE /\ pc' = [pc EXCEPT ![r] = "done"]
            /\ response' = [response EXCEPT ![r] =
                   [NoResponse EXCEPT !.status = 200, !.success = TRUE,
                                      !.ai = isAIReady, !.database = isDBReady,
                                      !.reports = {"ai", "database"}]]
    /\ UNCHANGED <<configVars, gateVars, awaited, received, calledIn,
                   adviseVars, route, dbTested, aiTested>>

\* The text generateAIResponse('test query', [], 'english') returns
\* (389-422): the generator's text, or the template when the call fails.
TestTexts == GeneratedTexts \cup {getSmartResponse(<<>>, "english")}

\* A variant of GET /api/test/ai that calls the generator whenever the
\* client object exists.
TestAiRespondNoFlag(r) ==
    /\ pc[r] = "ready"
    /\ route[r] = "test/ai"
    /\ received[r].tag # "error"
    /\ pc' = [pc EXCEPT ![r] = "done"]
    /\ IF genAI
       THEN /\ aiTested' = TRUE
            /\ \E text \in TestTexts :
                 response' = [response EXCEPT ![r] =
                     [NoResponse EXCEPT !.status = 200, !.ai = TRUE,
                                        !.advice = text, !.reports = {"ai"}]]
       ELSE /\ response' = [response EXCEPT ![r] =
                   [NoResponse EXCEPT !.status = 200, !.ai = FALSE,
                                      !.reports = {"ai"}]]
            /\ UNCHANGED aiTested
    /\ UNCHANGED <<configVars, gateVars, awaited, received, calledIn,
                   adviseVars, route, dbTested>>

\* GET /api/test/ai (647-678): without the flag, say so; with it, run one
\* generation and report aiReady: true.
TestAiRespond(r) ==
    /\ pc[r] = "ready"
    /\ route[r] = "test/ai"
    /\ IF received[r].tag = "error"
       THEN /\ pc' = [pc EXCEPT ![r] = "unhandled"]
            /\ UNCHANGED <<response, aiTested>>
       ELSE /\ pc' = [pc EXCEPT ![r] = "done"]
            /\ IF ~isAIReady
               THEN /\ response' = [response EXCEPT ![r] =
                           [NoResponse EXCEPT !.status = 200, !.ai = FALSE,
                                              !.reports = {"ai"}]]
                    /\ UNCHANGED aiTested
               ELSE /\ aiTested' = TRUE
                    /\ \E text \in TestTexts :
                         response' = [response EXCEPT ![r] =
                             [NoResponse EXCEPT !.status = 200, !.ai = TRUE,
                                                !.advice = text,
                                                !.reports = {"ai"}]]
    /\ UNCHANGED <<configVars, gateVars, awaited, received, calledIn,
                   adviseVars, route, dbTested>>

\* The response of GET /api/test/db when the store is not used or its call
\* failed (684-688, 701-706): dbReady: false with all the sample products.
TestDbFallback(failed) ==
    [NoResponse EXCEPT !.status = 200, !.database = FALSE,
                       !.error = failed,
                       !.products = getSampleProducts(<<>>),
                       !.reports = {"database"}]

\* GET /api/test/db (680-708): without the flag, send the sample products;
\* with it, count and read two records; if either call fails the catch
\* block sends dbReady: false.
TestDbRespond(r) ==
    /\ pc[r] = "ready"
    /\ route[r] = "test/db"
    /\ IF received[r].tag = "error"
       THEN /\ pc' = [pc EXCEPT ![r] = "unhandled"]
            /\ UNCHANGED <<response, dbTested>>
       ELSE /\ pc' = [pc EXCEPT ![r] = "done"]
            /\ IF ~isDBReady
               THEN /\ response' = [response EXCEPT ![r] = TestDbFallback(FALSE)]
                    /\ UNCHANGED dbTested
               ELSE /\ dbTested' = TRUE
                    /\ \/ \E n \in 0..TestLimit :
                            response' = [response EXCEPT ![r] =
                                [NoResponse EXCEPT !.status = 200,
                                     !.database = TRUE,
                                     !.products = MapFormat(
                                         [i \in 1..n |-> StoreRecord(i, 0)]),
                                     !.reports = {"database"}]]
                       \/ response' = [response EXCEPT ![r] = TestDbFallback(TRUE)]
    /\ UNCHANGED <<configVars, gateVars, awaited, received, calledIn,
                   adviseVars, route, aiTested>>

\* ------------------------------------------------------- specification
Init ==
    /\ GEMINI_API_KEY \in GeminiKeys
    /\ MONGODB_URI \in MongoUris
    /\ genAI = FALSE
    /\ isAIReady = FALSE
    /\ dbClient = FALSE
    /\ productsCollection = FALSE
    /\ isDBReady = FALSE
    /\ initializationPromise = NullPromise
    /\ initializationComplete = FALSE
    /\ initPromise = NullPromise
    /\ aiPc = "idle"
    /\ aiSettled = Unsettled
    /\ dbPc = "idle"
    /\ dbSettled = Unsettled
    /\ aiStarts = 0
    /\ dbStarts = 0
    /\ aiFailure = "none"
    /\ dbFailure = "none"
    /\ pc = [c \in Requests |-> "idle"]
    /\ awaited = [c \in Requests |-> "nothing"]
    /\ received = [c \in Requests |-> NoValue]
    /\ calledIn = [c \in Requests |-> "never"]
    /\ query = NoQuery
    /\ language = "hinglish"
    /\ products = <<>>
    /\ aiResponse = <<>>
    /\ raised = {}
    /\ dbQueried = FALSE
    /\ aiInvoked = FALSE
    /\ response = [c \in Requests |-> NoResponse]
    /\ route = [c \in Requests |-> "none"]
    /\ dbTested = FALSE
    /\ aiTested = FALSE

Next ==
    \/ \E c \in Callers : EnsureServicesReady(c)
    \/ GeminiTestDone
    \/ MongoConnectDone
    \/ MongoCountDone
    \/ InitializeReturn
    \/ InitPromiseThen
    \/ \E c \in Callers : Resolved(c)
    \/ \E h \in HealthReqs : HealthRespond(h)
    \/ AdviseParse(AdviseReq)
    \/ SearchProducts(AdviseReq)
    \/ GenerateAIResponse(AdviseReq)
    \/ AdviseRespond(AdviseReq)

Spec == Init /\ [][Next]_vars


\* The replies of Gemini and MongoDB arrive (each client has its own
\* timeout), and the event loop runs every continuation that is ready.
Fairness ==
    /\ WF_vars(GeminiTestDone)
    /\ WF_vars(MongoConnectDone)
    /\ WF_vars(MongoCountDone)
    /\ WF_vars(InitializeReturn)
    /\ WF_vars(InitPromiseThen)
    /\ \A c \in Callers : WF_vars(Resolved(c))

\* The gate and its callers: the steps up to the point where a caller has
\* the value of its await.  What a handler does with the value afterwards
\* changes nothing of the gate, so it is left out of the runs that are
\* about the calls resolving.
GateNext ==
    \/ \E c \in Callers : EnsureServicesReady(c)
    \/ GeminiTestDone
    \/ MongoConnectDone
    \/ MongoCountDone
    \/ InitializeReturn
    \/ InitPromiseThen
    \/ \E c \in Callers : Resolved(c)

FairSpec == Init /\ [][GateNext]_vars /\ Fairness

\* The server with the start-up call, one advise request and one request to
\* a status route.
RouteCallers == {Boot, AdviseReq, RouteReq}

RouteNext ==
    \/ \E c \in RouteCallers : EnsureServicesReady(c)
    \/ GeminiTestDone
    \/ MongoConnectDone
    \/ MongoCountDone
    \/ InitializeReturn
    \/ InitPromiseThen
    \/ \E c \in RouteCallers : Resolved(c)
    \/ HealthRespond(RouteReq)
    \/ TestRespond(RouteReq)
    \/ TestAiRespond(RouteReq)
    \/ TestDbRespond(RouteReq)
    \/ AdviseParse(AdviseReq)
    \/ SearchProducts(AdviseReq)
    \/ GenerateAIResponse(AdviseReq)
    \/ AdviseRespond(AdviseReq)

RouteSpec == Init /\ [][RouteNext]_vars

\* ================================================================ claims
\* Callers that called ensureServicesReady before the attempt had resolved.
EarlyCallers == {c \in Callers : calledIn[c] \in {"NotAttempted", "Attempting"}}
\* Callers that called it after the attempt had completed.
LateCallers == {c \in Callers : calledIn[c] = "Completed"}

\* C1: however many callers call ensureServicesReady before the attempt has
\* resolved, initializeGemini and initializeMongoDB are each started exactly
\* once, and every such caller receives the one result of the attempt.
C1_SingleFlight ==
    /\ aiStarts <= 1
    /\ dbStarts <= 1
    /\ (EarlyCallers # {} => aiStarts = 1 /\ dbStarts = 1)
    /\ \A c \in EarlyCallers :
        received[c] # NoValue =>
            /\ initializationPromise.state = "fulfilled"
            /\ received[c] = ResultValue(initializationPromise)
    /\ \A c, d \in EarlyCallers :
        (received[c] # NoValue /\ received[d] # NoValue) => received[c] = received[d]

\* Every caller called before the attempt resolved and each has received
\* the result, here with text generation ready and the store failed.
C1_Witness ==
    /\ EarlyCallers = Callers
    /\ \A c \in Callers : received[c] = [tag |-> "result", aiReady |-> TRUE,
                                         dbReady |-> FALSE]

\* C2: a call made after the attempt has completed returns the cached
\* result, the value the callers who waited on the attempt received.
C2_LateCallReturnsResult ==
    \A c \in LateCallers :
        received[c] # NoValue => received[c] = ResultValue(initPromise)

\* C3: once the attempt has completed nothing of the gate changes any more:
\* no routine is started again, the flags, the marker and the promises stay.
C3_CompletedIsPermanent ==
    [][initializationComplete =>
        /\ initializationComplete'
        /\ isAIReady' = isAIReady
        /\ isDBReady' = isDBReady
        /\ aiStarts' = aiStarts
        /\ dbStarts' = dbStarts
        /\ aiPc' = aiPc
        /\ dbPc' = dbPc
        /\ initPromise' = initPromise
        /\ initializationPromise' = initializationPromise]_vars

\* After completion with text generation failed, a late caller was served
\* and the advise request met a failing store lookup.
C3_Witness ==
    /\ initializationComplete
    /\ ~isAIReady
    /\ isDBReady
    /\ "search" \in raised
    /\ pc[AdviseReq] = "done"
    /\ \E h \in HealthReqs : h \in LateCallers /\ pc[h] = "done"

\* C4 as claimed: while the first call has not resolved both flags are
\* false, and afterwards they equal the result.
C4_FlagsFalseUntilResolved ==
    /\ ~initializationComplete => (~isAIReady /\ ~isDBReady)
    /\ initializationComplete =>
        (isAIReady = initPromise.aiReady /\ isDBReady = initPromise.dbReady)

\* C4 as amended: a flag is false until its own routine has finished with
\* success (which can be while the attempt is still in progress), and after
\* the attempt has resolved the flags equal the result.
C4_FlagsFollowOwnRoutine ==
    /\ isAIReady => (aiPc = "done" /\ SettledReady(aiSettled))
    /\ isDBReady => (dbPc = "done" /\ SettledReady(dbSettled))
    /\ initializationComplete =>
        (isAIReady = initPromise.aiReady /\ isDBReady = initPromise.dbReady)

\* isAIReady is already true while the store routine is still connecting.
C4_Witness ==
    /\ isAIReady
    /\ dbPc = "connecting"
    /\ ~initializationComplete
    /\ initializationPromise.state = "pending"

\* C5: no promise of the gate rejects and no caller receives an error; a
\* routine that failed at any step leaves its flag false and the attempt
\* resolves with that capability false.
C5_FailuresAbsorbed ==
    /\ initializationPromise.state # "rejected"
    /\ initPromise.state # "rejected"
    /\ \A c \in Callers : received[c].tag # "error" /\ pc[c] # "unhandled"
    /\ (aiPc = "done" /\ aiFailure # "none") => ~isAIReady
    /\ (dbPc = "done" /\ dbFailure # "none") => ~isDBReady
    /\ initializationPromise.state = "fulfilled" =>
        /\ aiFailure # "none" => ~initializationPromise.aiReady
        /\ dbFailure # "none" => ~initializationPromise.dbReady

\* The Gemini test request failed, the store's probe failed, and the advise
\* request was nevertheless answered.
C5_Witness ==
    /\ aiFailure = "connect"
    /\ dbFailure = "probe"
    /\ received[AdviseReq] = [tag |-> "result", aiReady |-> FALSE, dbReady |-> FALSE]
    /\ response[AdviseReq].status = 200

\* C6: the result's aiReady is decided by initializeGemini alone and its
\* dbReady by initializeMongoDB alone; with the key absent and the store
\* initialized the attempt resolves with aiReady false and dbReady true.
C6_OutcomesIndependent ==
    /\ initializationPromise.state = "fulfilled" =>
        /\ initializationPromise.aiReady = (aiFailure = "none")
        /\ initializationPromise.dbReady = (dbFailure = "none")
    /\ \A c \in EarlyCallers :
        (received[c] # NoValue /\ KeyMissing(GEMINI_API_KEY) /\ dbFailure = "none")
            => received[c] = [tag |-> "result", aiReady |-> FALSE, dbReady |-> TRUE]

\* The key is absent, the store initialized, and a caller has the result.
C6_Witness ==
    /\ KeyMissing(GEMINI_API_KEY)
    /\ dbFailure = "none"
    /\ received[AdviseReq] = [tag |-> "result", aiReady |-> FALSE, dbReady |-> TRUE]


\* The advise request has been answered and its query was a string with
\* something other than blanks in it.
AdviseAnswered == pc[AdviseReq] = "done" /\ response[AdviseReq] # NoResponse
StringQuery == query.type = "string" /\ ~QueryBlank(query)
BothFailed == initializationComplete /\ ~isAIReady /\ ~isDBReady
BothReady == initializationComplete /\ isAIReady /\ isDBReady

\* The first segments of the templated texts.
TemplateHeads == {t[1] : t \in SmartTexts}
Templated(text) == text # <<>> /\ text[1] \in TemplateHeads /\ text[Len(text)] = "signature"

\* C7 as claimed: with both capabilities failed, every advise request with
\* a non-empty query gets success:true, the fixed two sample products and
\* templated advice.
C7_FixedSampleList ==
    (BothFailed /\ AdviseAnswered /\ StringQuery) =>
        /\ response[AdviseReq].success
        /\ response[AdviseReq].products = MapFormat(sampleProducts)
        /\ Templated(response[AdviseReq].advice)

\* C7 as amended: with both capabilities failed, every advise request whose
\* query is a non-blank string gets status 200, success:true, those of the
\* two sample products whose name, category or brand contains the query in
\* lower case (none, one or both) and templated advice, and no error is
\* raised or left unhandled.
C7_FilteredSampleList ==
    /\ pc[AdviseReq] # "unhandled"
    /\ (BothFailed /\ AdviseAnswered /\ StringQuery) =>
        /\ response[AdviseReq].status = 200
        /\ response[AdviseReq].success
        /\ raised = {}
        /\ ~dbQueried
        /\ Len(response[AdviseReq].products) <= Len(sampleProducts)
        /\ \A i \in 1..Len(response[AdviseReq].products) :
            \E j \in 1..Len(sampleProducts) :
                /\ response[AdviseReq].products[i] = formatProduct(sampleProducts[j])
                /\ SampleMatches(sampleProducts[j], toLowerCase(cleanQuery))
        /\ \A j \in 1..Len(sampleProducts) :
            SampleMatches(sampleProducts[j], toLowerCase(cleanQuery)) =>
                \E i \in 1..Len(response[AdviseReq].products) :
                    response[AdviseReq].products[i].id = sampleProducts[j].id
        /\ (query.chars = QLaptop => response[AdviseReq].products = <<>>)
        /\ (query.chars = QIphone =>
                /\ Len(response[AdviseReq].products) = 1
                /\ response[AdviseReq].products[1].id = "1")
        /\ (query.chars = QSmartphones => Len(response[AdviseReq].products) = 2)
        /\ Templated(response[AdviseReq].advice)

\* Both capabilities failed and "laptop under 50000" was answered with
\* success:true, templated tips and no product.
C7_Witness ==
    /\ BothFailed
    /\ AdviseAnswered
    /\ query.chars = QLaptop
    /\ response[AdviseReq].success
    /\ response[AdviseReq].products = <<>>
    /\ response[AdviseReq].advice = <<"smart hinglish tips", "signature">>

\* The degraded response as the claim describes it.
IsDegraded(res) ==
    /\ res.status = 500
    /\ ~res.success
    /\ res.advice = <<"temporarily unavailable">>
    /\ Len(res.products) = 2
    /\ res.products[1].id = "1"
    /\ res.products[2].id = "2"

\* C8 as claimed: any error raised while the request is processed, in query
\* parsing, product search, advice generation or link merging, ends in the
\* degraded response.
C8_AnyErrorDegraded ==
    /\ pc[AdviseReq] # "unhandled"
    /\ (pc[AdviseReq] = "done" /\ raised # {}) => IsDegraded(response[AdviseReq])

\* C8 as amended: an error that leaves the step that raised it (a query
\* that is no string, a failing link merge) is caught by the handler and
\* ends in exactly one degraded response; a failing store lookup or
\* generator call is absorbed by that step's own fallback and the request
\* ends with success:true; no error leaves the handler.
C8_EscapingErrorDegraded ==
    /\ pc[AdviseReq] # "unhandled"
    /\ (pc[AdviseReq] = "done") = (response[AdviseReq] # NoResponse)
    /\ pc[AdviseReq] = "done" =>
        /\ (raised \cap {"parse", "merge"} # {}) => IsDegraded(response[AdviseReq])
        /\ (raised # {} /\ raised \subseteq {"search", "generate"}) =>
            (response[AdviseReq].status = 200 /\ response[AdviseReq].success)

\* The link merge threw and the request got the degraded response.
C8_Witness ==
    /\ "merge" \in raised
    /\ pc[AdviseReq] = "done"
    /\ IsDegraded(response[AdviseReq])

\* C9: with both capabilities ready, an advise request with a non-empty
\* query gets at most five products and a non-empty advice, whatever the
\* store and the generator return.
C9_ProductsAndAdvice ==
    (BothReady /\ AdviseAnswered /\ StringQuery) =>
        /\ Len(response[AdviseReq].products) \in 0..5
        /\ response[AdviseReq].advice # <<>>

\* The gate's steps: none, NotAttempted -> Attempting, Attempting -> Completed.
GateSteps ==
    {<<"NotAttempted", "NotAttempted">>, <<"NotAttempted", "Attempting">>,
     <<"Attempting", "Attempting">>, <<"Attempting", "Completed">>,
     <<"Completed", "Completed">>}

\* C10: the gate moves only NotAttempted -> Attempting -> Completed; it
\* completes, and a caller receives its value, only when both routines have
\* finished; a routine that finishes first leaves the other one running and
\* the attempt pending, and a routine that fails validation at the start
\* does not keep the other from starting.
C10_GateOrder ==
    [][/\ <<GateState, GateState'>> \in GateSteps
       /\ (GateState # "Completed" /\ GateState' = "Completed") =>
            (aiPc = "done" /\ dbPc = "done")
       /\ (initializationPromise.state = "pending" /\
           initializationPromise'.state # "pending") =>
            (aiPc = "done" /\ dbPc = "done")
       /\ \A c \in Callers :
            (received[c] = NoValue /\ received'[c] # NoValue) =>
                (aiPc = "done" /\ dbPc = "done" /\ aiStarts >= 1 /\ dbStarts >= 1)
       /\ (aiPc = "testing" /\ aiPc' = "done" /\ dbPc # "done") =>
            (dbPc' = dbPc /\ GateState' = "Attempting" /\
             initializationPromise'.state = "pending")
       /\ (dbPc \in {"connecting", "counting"} /\ dbPc' = "done" /\ aiPc # "done") =>
            (aiPc' = aiPc /\ GateState' = "Attempting" /\
             initializationPromise'.state = "pending")
       /\ (aiPc = "idle" /\ aiPc' = "done") => dbPc' # "idle"
       /\ (dbPc = "idle" /\ dbPc' = "done") => aiPc' # "idle"
      ]_vars

\* initializeGemini has failed while initializeMongoDB is still probing and
\* callers are waiting on the pending attempt.
C10_Witness ==
    /\ aiPc = "done"
    /\ aiFailure = "probe"
    /\ dbPc = "counting"
    /\ GateState = "Attempting"
    /\ \A c \in Callers : pc[c] = "await"


\* The products are formatted sample products.
FromSample(ps) ==
    \A i \in 1..Len(ps) :
        \E j \in 1..Len(sampleProducts) : ps[i] = formatProduct(sampleProducts[j])

\* C11 as claimed: with both capabilities ready, a failing store lookup
\* falls back to sample products, a failing generator call falls back to
\* templated advice, and in both cases the request ends with success:true.
C11_FallbackAlwaysSucceeds ==
    (BothReady /\ pc[AdviseReq] = "done") =>
        /\ "search" \in raised =>
            /\ response[AdviseReq].success
            /\ FromSample(response[AdviseReq].products)
        /\ "generate" \in raised =>
            /\ response[AdviseReq].success
            /\ Templated(response[AdviseReq].advice)

\* C11 as amended: the two fallbacks are taken; after a failed lookup the
\* request always ends with success:true; after a failed generator call it
\* ends with success:true unless the link merge then throws on the store's
\* records, and then the degraded response is sent.
C11_FallbackUnlessMergeThrows ==
    BothReady =>
        /\ ("search" \in raised /\ pc[AdviseReq] \in {"generate", "respond", "done"}) =>
            /\ dbQueried
            /\ FromSample(products)
            /\ products = getSampleProducts(cleanQuery)
            /\ "merge" \notin raised
        /\ ("generate" \in raised /\ pc[AdviseReq] \in {"respond", "done"}) =>
            /\ aiInvoked
            /\ aiResponse \in SmartTexts
        /\ (pc[AdviseReq] = "done" /\ raised \cap {"search", "generate"} # {}) =>
            IF "merge" \in raised
            THEN /\ IsDegraded(response[AdviseReq])
                 /\ "search" \notin raised
                 /\ AffiliateThrows(products)
            ELSE /\ response[AdviseReq].status = 200
                 /\ response[AdviseReq].success
                 /\ Templated(response[AdviseReq].advice) \/ "generate" \notin raised
                 /\ FromSample(response[AdviseReq].products) \/ "search" \notin raised

\* Both capabilities ready, the lookup and the generator call both failed,
\* and " iPhone " was answered with the matching sample product and
\* templated advice.
C11_Witness ==
    /\ BothReady
    /\ raised = {"search", "generate"}
    /\ pc[AdviseReq] = "done"
    /\ query.chars = QIphone
    /\ response[AdviseReq].success
    /\ Len(response[AdviseReq].products) = 1
    /\ response[AdviseReq].products[1].id = "1"
    /\ response[AdviseReq].advice =
        <<"smart hinglish products", "affiliate links", "signature">>


\* The steps a routine can take: validation fails, or the client is made
\* and the connection or the test request is on its way, and so on.
GeminiSteps ==
    {<<"idle", "done">>, <<"idle", "testing">>, <<"testing", "done">>}
MongoSteps ==
    {<<"idle", "done">>, <<"idle", "connecting">>, <<"connecting", "counting">>,
     <<"connecting", "done">>, <<"counting", "done">>}

\* C13: each routine validates its credential, then makes its connection,
\* then runs its one test call, in this order; it reports success and sets
\* its flag only when all three succeeded; a credential that is missing or
\* malformed ends the routine with no client, no connection and no test.
C13_StepOrder ==
    [][/\ aiPc' # aiPc => <<aiPc, aiPc'>> \in GeminiSteps
       /\ dbPc' # dbPc => <<dbPc, dbPc'>> \in MongoSteps
       /\ (aiPc = "idle" /\ aiPc' = "testing") =>
            /\ GEMINI_API_KEY.len # 0
            /\ GEMINI_API_KEY.prefix = "AIza"
            /\ GEMINI_API_KEY.len >= 30
            /\ genAI'
       /\ (aiPc = "idle" /\ aiPc' = "done") =>
            /\ aiFailure' \in {"missing", "malformed"}
            /\ ~genAI' /\ ~isAIReady'
            /\ aiSettled' = Returned(FALSE)
       /\ (dbPc = "idle" /\ dbPc' = "connecting") =>
            /\ MONGODB_URI = "valid"
            /\ dbClient'
       /\ (dbPc = "idle" /\ dbPc' = "done") =>
            /\ dbFailure' \in {"missing", "malformed"}
            /\ ~dbClient' /\ ~productsCollection' /\ ~isDBReady'
            /\ dbSettled' = Returned(FALSE)
       /\ (dbPc = "connecting" /\ dbPc' = "counting") => productsCollection'
       /\ (isAIReady' /\ ~isAIReady) => (aiPc = "testing" /\ aiPc' = "done")
       /\ (isDBReady' /\ ~isDBReady) => (dbPc = "counting" /\ dbPc' = "done")
       /\ SettledReady(aiSettled') => (isAIReady' /\ genAI' /\ aiFailure' = "none")
       /\ SettledReady(dbSettled') =>
            (isDBReady' /\ dbClient' /\ productsCollection' /\ dbFailure' = "none")
       /\ aiFailure' \in {"missing", "malformed"} => (~genAI' /\ aiPc' = "done")
       /\ dbFailure' \in {"missing", "malformed"} =>
            (~dbClient' /\ ~productsCollection' /\ dbPc' = "done")
      ]_vars

\* The URI held a placeholder, so the store routine ended without client or
\* connection, while the Gemini routine went through all its steps.
C13_Witness ==
    /\ UriHasPlaceholder(MONGODB_URI)
    /\ dbFailure = "malformed"
    /\ dbPc = "done"
    /\ ~dbClient
    /\ ~productsCollection
    /\ genAI
    /\ isAIReady
    /\ initializationPromise = Fulfilled(TRUE, FALSE)


\* C14: when both routines finish, every call of ensureServicesReady
\* resolves, whether it was made before, during or after the attempt, and
\* the callers that waited on the attempt all get the value of the one
\* promise that its completion fulfilled.
C14_EveryCallResolves ==
    /\ \A c \in Callers : (pc[c] = "await") ~> (received[c] # NoValue)
    /\ [](\A c \in Callers :
            (awaited[c] = "initPromise" /\ received[c] # NoValue) =>
                /\ initializationComplete
                /\ received[c] = ResultValue(initPromise))
    /\ [](initPromise.state = "fulfilled" =>
            \A c \in Callers : pc[c] = "await" => ENABLED Resolved(c))

\* One caller has resolved after waiting on the attempt, in which a routine
\* failed, and another has resolved after calling once it was complete.
C14_Witness ==
    /\ initializationComplete
    /\ ~initPromise.dbReady
    /\ \E c \in Callers : awaited[c] = "initPromise" /\ received[c] # NoValue
    /\ \E c \in Callers : awaited[c] = "true" /\ received[c] = TrueValue

\* C12: a request queries the store only when isDBReady is true and invokes
\* the generator only when isAIReady is true; with a flag false the
\* capability is not called and the fallback is used: the sample products
\* in place of the store, the templated text in place of the generator.
C12_FlagsConsulted ==
    [][/\ (dbQueried' /\ ~dbQueried) => isDBReady
       /\ (dbTested' /\ ~dbTested) => isDBReady
       /\ (aiInvoked' /\ ~aiInvoked) => isAIReady
       /\ (aiTested' /\ ~aiTested) => isAIReady
       /\ (pc[AdviseReq] = "search" /\ pc'[AdviseReq] # "search" /\ ~isDBReady) =>
            /\ dbQueried' = dbQueried
            /\ products' = getSampleProducts(cleanQuery)
       /\ (pc[AdviseReq] = "generate" /\ pc'[AdviseReq] # "generate" /\ ~isAIReady) =>
            /\ aiInvoked' = aiInvoked
            /\ aiResponse' = getSmartResponse(products, language)
       /\ (pc[RouteReq] = "ready" /\ pc'[RouteReq] = "done" /\
           route[RouteReq] = "test/db" /\ ~isDBReady) =>
            /\ dbTested' = dbTested
            /\ response'[RouteReq].products = getSampleProducts(<<>>)
       /\ (pc[RouteReq] = "ready" /\ pc'[RouteReq] = "done" /\
           route[RouteReq] = "test/ai" /\ ~isAIReady) =>
            /\ aiTested' = aiTested
            /\ response'[RouteReq].advice = <<>>
      ]_vars

\* The count probe and the Gemini test both failed after the clients were
\* made; the advise request and the test of the store were answered from
\* the fallbacks without a call to the store or the generator.
C12_Witness ==
    /\ productsCollection /\ ~isDBReady
    /\ genAI /\ ~isAIReady
    /\ pc[AdviseReq] = "done"
    /\ response[AdviseReq].status = 200
    /\ Len(response[AdviseReq].products) > 0
    /\ ~dbQueried /\ ~aiInvoked
    /\ route[RouteReq] = "test/db"
    /\ pc[RouteReq] = "done"
    /\ ~dbTested


\* The requests: every caller but the start-up call.
Handlers == Requests \ {Boot}

\* A handler is past its await only when the attempt has completed.
ReadsAfterCompletion ==
    \A c \in Handlers :
        pc[c] \notin {"idle", "await"} =>
            /\ initializationComplete
            /\ initializationPromise.state = "fulfilled"
            /\ aiPc = "done"
            /\ dbPc = "done"

\* C15: every handler reads the flags only after the attempt has completed,
\* and the ai and database values of every response are those of the
\* attempt's result.
C15_ResponsesEqualResult ==
    /\ ReadsAfterCompletion
    /\ \A c \in Handlers :
        /\ "ai" \in response[c].reports =>
              response[c].ai = initializationPromise.aiReady
        /\ "database" \in response[c].reports =>
              response[c].database = initializationPromise.dbReady

\* C15, amended: as above, except that GET /api/test/db reports dbReady:
\* false when its own count or read fails although the result says true.
C15_ResponsesEqualResultUnlessTestFails ==
    /\ ReadsAfterCompletion
    /\ \A c \in Handlers :
        /\ "ai" \in response[c].reports =>
              response[c].ai = initializationPromise.aiReady
        /\ "database" \in response[c].reports =>
              IF response[c].error
              THEN /\ route[c] = "test/db"
                   /\ dbTested
                   /\ ~response[c].database
                   /\ initializationPromise.dbReady
              ELSE response[c].database = initializationPromise.dbReady

\* The status request arrived while both routines were running and the
\* advise request after completion; the Gemini test failed, the store came
\* up, and both responses carry these two values.
C15_Witness ==
    /\ calledIn[RouteReq] = "Attempting"
    /\ calledIn[AdviseReq] = "Completed"
    /\ initializationPromise = Fulfilled(FALSE, TRUE)
    /\ route[RouteReq] = "test"
    /\ response[RouteReq].reports = {"ai", "database"}
    /\ ~response[RouteReq].ai /\ response[RouteReq].database
    /\ response[AdviseReq].reports = {"ai", "database"}
    /\ ~response[AdviseReq].ai /\ response[AdviseReq].database

====
